---- MODULE Spec2Model ----
(***************************************************************************)
(* Model of fp_num (src/src/lib.rs): Float::new, Float::count_digits,      *)
(* Float::is_valid, Float::to_binary_repl, Float::print_decimal and the    *)
(* bit primitives set_nth_bit, get_nth_bit, reverse_from_nth_bit.          *)
(*                                                                         *)
(* A u32 is modelled as a pair <<hi, lo>> of 16-bit halves (value          *)
(* hi * 2^16 + lo), because the values of the program reach 2^32 - 1.  An  *)
(* exact intermediate result that no longer fits 32 bits has hi >= 2^16;   *)
(* the build decides what happens to it: with overflow checks ("debug",    *)
(* the profile of cargo test) the operation panics, without them           *)
(* ("release") the value wraps modulo 2^32.  A u128 and every exact        *)
(* natural of the properties is a big-endian sequence of decimal digits.   *)
(* A string is a sequence of characters, each a TLA+ string; "U+0663" is   *)
(* ARABIC-INDIC DIGIT THREE (two bytes in UTF-8).                          *)
(***************************************************************************)
EXTENDS Integers, Sequences, FiniteSets, TLC

VARIABLES build, call, pc, valid, dig, num, edge_num, cur_num, cur_dig, res,
          f, out, ret, err, r1, r2

vars == <<build, call, pc, valid, dig, num, edge_num, cur_num, cur_dig, res,
          f, out, ret, err, r1, r2>>

----------------------------------------------------------------------------
(* Bounds of the explored inputs.                                          *)

\* longest string over Alphabet passed to Float::new
MaxLen == 3
\* most fractional digits of the exhaustively enumerated "0.<digits>" inputs
MaxDigits == 2
\* most distinct powers 2^-i summed in a dyadic input
MaxTerms == 2
\* most zeros padded before or after the tail of a long input
MaxPad == 32
\* significands 0 .. 2^MaxSigBits - 1 are enumerated for directly built words
MaxSigBits == 3
\* words 0 .. 2^MaxRevBits - 1 are enumerated for reverse_from_nth_bit
MaxRevBits == 4

----------------------------------------------------------------------------
(* u32 arithmetic.                                                         *)

Half == 2^16

U32(n) == <<n \div Half, n % Half>>

\* exact sum; hi >= Half when it does not fit 32 bits
WideAdd(a, b) ==
    LET lo == a[2] + b[2]
    IN  <<a[1] + b[1] + (lo \div Half), lo % Half>>

\* exact product of a u32 by a small factor c (c <= 10)
WideMul(a, c) ==
    LET lo == a[2] * c
    IN  <<a[1] * c + (lo \div Half), lo % Half>>

Overflows(w) == w[1] >= Half

Wrap(w) == <<w[1] % Half, w[2]>>

Lt(a, b) == a[1] < b[1] \/ (a[1] = b[1] /\ a[2] < b[2])

Ge(a, b) == ~Lt(a, b)

\* a - b for a >= b
Sub(a, b) ==
    LET lo == a[2] - b[2]
    IN  IF lo < 0 THEN <<a[1] - b[1] - 1, lo + Half>> ELSE <<a[1] - b[1], lo>>

\* a % m for m # 0
RECURSIVE Rem(_, _)
Rem(a, m) ==
    IF Lt(a, m) THEN a
    ELSE LET r == Rem(a, WideAdd(m, m))
         IN  IF Lt(r, m) THEN r ELSE Sub(r, m)

\* cur_num <<= 1: the bit shifted out of the word is lost in every build
Shl1(a) == Wrap(WideAdd(a, a))

\* the powers 10^0 .. 10^k as computed in u32: v is the value modulo 2^32,
\* o tells whether the power exceeds u32
RECURSIVE PowersOfTen(_)
PowersOfTen(k) ==
    IF k = 0 THEN <<[v |-> U32(1), o |-> FALSE]>>
    ELSE LET s == PowersOfTen(k - 1)
             w == WideMul(s[k].v, 10)
         IN  Append(s, [v |-> Wrap(w), o |-> s[k].o \/ Overflows(w)])

\* the longest fractional part among the explored inputs
MaxFraction == MaxPad + 1

PowTable == PowersOfTen(MaxFraction)

\* 10u32.pow(exp); the multiplications of pow overflow exactly when 10^exp
\* exceeds u32
pow(exp) == PowTable[exp + 1]

----------------------------------------------------------------------------
(* Bit primitives.                                                         *)

\* bit n (0 or 1) of a 16-bit half
HalfBit(h, n) == (h \div 2^n) % 2

Bit(w, n) == IF n < 16 THEN HalfBit(w[2], n) ELSE HalfBit(w[1], n - 16)

get_nth_bit(num_, n) == Bit(num_, n) # 0

\* 1 << n | num when b, !(1 << n) & num otherwise: bit n becomes b and the
\* other bits stay
set_nth_bit(num_, n, b) ==
    LET cur == Bit(num_, n)
        new == IF b THEN 1 ELSE 0
    IN  IF n < 16
        THEN <<num_[1], num_[2] + (new - cur) * 2^n>>
        ELSE <<num_[1] + (new - cur) * 2^(n - 16), num_[2]>>

RECURSIVE reverse_loop(_, _, _, _)
reverse_loop(target, bit, i, acc) ==
    IF i >= bit THEN acc
    ELSE reverse_loop(target, bit, i + 1,
                      set_nth_bit(acc, bit - i - 1, get_nth_bit(target, i)))

\* the result started from target instead of 0: the upper bits survive
reverse_from_nth_bit_keep_upper(target, bit) ==
    reverse_loop(target, bit, 0, target)

reverse_from_nth_bit(target, bit) == reverse_loop(target, bit, 0, U32(0))

\* x | y on 16-bit halves, bit by bit from bit i upwards
RECURSIVE OrHalf(_, _, _)
OrHalf(x, y, i) ==
    IF i > 15 THEN 0
    ELSE (IF HalfBit(x, i) = 1 \/ HalfBit(y, i) = 1 THEN 2^i ELSE 0)
         + OrHalf(x, y, i + 1)

\* a | b
U32Or(a, b) == <<OrHalf(a[1], b[1], 0), OrHalf(a[2], b[2], 0)>>

\* n << 23 for n < 2^8
Shl23(n) == <<n * 2^7, 0>>

----------------------------------------------------------------------------
(* Characters and strings.                                                 *)

AsciiDigits == {"0", "1", "2", "3", "4", "5", "6", "7", "8", "9"}

DigitChars == <<"0", "1", "2", "3", "4", "5", "6", "7", "8", "9">>

\* the characters of the explored strings: digits, the separator, a letter,
\* a sign, a blank and a numeric character outside ASCII
Alphabet == {"0", "1", "5", ".", "a", "-", " ", "U+0663"}

\* char::is_numeric: the Unicode numeric categories, not only '0'..'9'
is_numeric(c) == c \in AsciiDigits \cup {"U+0663"}

None == -1

\* char::to_digit(10): the value of an ASCII digit, None for any other char
to_digit(c) ==
    IF c \in AsciiDigits THEN CHOOSE d \in 0..9 : DigitChars[d + 1] = c
    ELSE None

\* char::len_utf8
len_utf8(c) == IF c = "U+0663" THEN 2 ELSE 1

\* str::len, the length in bytes
RECURSIVE ByteLenFrom(_, _)
ByteLenFrom(s, i) ==
    IF i > Len(s) THEN 0 ELSE len_utf8(s[i]) + ByteLenFrom(s, i + 1)

ByteLen(s) == ByteLenFrom(s, 1)

\* index of the first '.' at or after position i, 0 when there is none
RECURSIVE FindDot(_, _)
FindDot(s, i) ==
    IF i > Len(s) THEN 0
    ELSE IF s[i] = "." THEN i
    ELSE FindDot(s, i + 1)

\* n copies of c
Repeat(c, n) == [i \in 1..n |-> c]

----------------------------------------------------------------------------
(* Exact naturals as big-endian sequences of decimal digits; <<0>> is 0.   *)

RECURSIVE IntDigits(_)
IntDigits(n) == IF n < 10 THEN <<n>> ELSE Append(IntDigits(n \div 10), n % 10)

\* a without its leading zeros
Strip(a) ==
    LET nz == {i \in 1..Len(a) : a[i] # 0}
        k  == IF nz = {} THEN Len(a) ELSE CHOOSE i \in nz : \A j \in nz : i <= j
    IN  SubSeq(a, k, Len(a))

\* digits of a[1..i] * m + carry, for an Int m
RECURSIVE MulFrom(_, _, _, _)
MulFrom(a, i, m, carry) ==
    IF i = 0 THEN IntDigits(carry)
    ELSE LET v == a[i] * m + carry
         IN  Append(MulFrom(a, i - 1, m, v \div 10), v % 10)

BigMulInt(a, m) == Strip(MulFrom(a, Len(a), m, 0))

\* digits of a[1..i] + b[1..i] + carry, for a and b of one length
RECURSIVE AddFrom(_, _, _, _)
AddFrom(a, b, i, carry) ==
    IF i = 0 THEN IntDigits(carry)
    ELSE LET v == a[i] + b[i] + carry
         IN  Append(AddFrom(a, b, i - 1, v \div 10), v % 10)

BigAdd(a, b) ==
    LET w  == IF Len(a) > Len(b) THEN Len(a) ELSE Len(b)
        pa == Repeat(0, w - Len(a)) \o a
        pb == Repeat(0, w - Len(b)) \o b
    IN  Strip(AddFrom(pa, pb, w, 0))

\* a < b for stripped a and b
RECURSIVE LexLt(_, _, _)
LexLt(a, b, i) ==
    IF i > Len(a) THEN FALSE
    ELSE IF a[i] # b[i] THEN a[i] < b[i]
    ELSE LexLt(a, b, i + 1)

BigLt(a, b) == Len(a) < Len(b) \/ (Len(a) = Len(b) /\ LexLt(a, b, 1))

BigLe(a, b) == ~BigLt(b, a)

\* the exact value of a u32
BigOfU32(w) == BigAdd(BigMulInt(IntDigits(w[1]), Half), IntDigits(w[2]))

\* a * m^k
RECURSIVE BigMulPow(_, _, _)
BigMulPow(a, m, k) == IF k = 0 THEN a ELSE BigMulPow(BigMulInt(a, m), m, k - 1)

\* u128::to_string
to_string(a) == [i \in 1..Len(a) |-> DigitChars[a[i] + 1]]

\* the digits a string of ASCII digits spells
DigitsOf(s) == [i \in 1..Len(s) |-> to_digit(s[i])]

----------------------------------------------------------------------------
(* The parser.                                                             *)

RECURSIVE is_valid_loop(_, _, _)
is_valid_loop(s, i, num_dot) ==
    IF i > Len(s) THEN ~(num_dot > 1)
    ELSE IF s[i] = "." THEN is_valid_loop(s, i + 1, num_dot + 1)
    ELSE IF ~is_numeric(s[i]) THEN FALSE
    ELSE is_valid_loop(s, i + 1, num_dot)

is_valid(s) == is_valid_loop(s, 1, 0)

Panic(why) == [kind |-> "panic", err |-> why, dig |-> 0, num |-> U32(0)]

\* the for loop of count_digits over b from character i on; bld is the build
RECURSIVE count_digits_loop(_, _, _, _, _, _)
count_digits_loop(b, i, l, dig_, sum, bld) ==
    IF i > Len(b) THEN [kind |-> "ok", err |-> "", dig |-> l, num |-> sum]
    ELSE
      LET dig1 == dig_ - 1
          d    == to_digit(b[i])
      IN  IF d = None THEN Panic("unwrap on None")
          ELSE
            LET p == pow(dig1)
                m == WideMul(p.v, d)
                t == WideAdd(sum, Wrap(m))
            IN  IF (Overflows(t) \/ Overflows(m) \/ p.o) /\ bld = "debug"
                THEN Panic("overflow in count_digits")
                ELSE count_digits_loop(b, i + 1, l, dig1, Wrap(t), bld)

\* s.split('.') and a[1]: the characters between the first '.' and the next
count_digits(s, bld) ==
    LET p == FindDot(s, 1)
    IN  IF p = 0 THEN Panic("index out of bounds")
        ELSE
          LET rest == SubSeq(s, p + 1, Len(s))
              q    == FindDot(rest, 1)
              b    == IF q = 0 THEN rest ELSE SubSeq(rest, 1, q - 1)
              l    == ByteLen(b)
          IN  count_digits_loop(b, 1, l, l, U32(0), bld)

----------------------------------------------------------------------------
(* The power-of-two table: exponent |-> Internal(v0, v1), v0 in digits.    *)

TableSize == 23

POW_2_TO_INTERNAL ==
    1 :> [v0 |-> <<5>>, v1 |-> 1] @@
    2 :> [v0 |-> <<2, 5>>, v1 |-> 2] @@
    3 :> [v0 |-> <<1, 2, 5>>, v1 |-> 3] @@
    4 :> [v0 |-> <<6, 2, 5>>, v1 |-> 4] @@
    5 :> [v0 |-> <<3, 1, 2, 5>>, v1 |-> 5] @@
    6 :> [v0 |-> <<1, 5, 6, 2, 5>>, v1 |-> 6] @@
    7 :> [v0 |-> <<7, 8, 1, 2, 5>>, v1 |-> 7] @@
    8 :> [v0 |-> <<3, 9, 0, 6, 2, 5>>, v1 |-> 8] @@
    9 :> [v0 |-> <<1, 9, 5, 3, 1, 2, 5>>, v1 |-> 9] @@
    10 :> [v0 |-> <<9, 7, 6, 5, 6, 2, 5>>, v1 |-> 10] @@
    11 :> [v0 |-> <<4, 8, 8, 2, 8, 1, 2, 5>>, v1 |-> 11] @@
    12 :> [v0 |-> <<2, 4, 4, 1, 4, 0, 6, 2, 5>>, v1 |-> 12] @@
    13 :> [v0 |-> <<1, 2, 2, 0, 7, 0, 3, 1, 2, 5>>, v1 |-> 13] @@
    14 :> [v0 |-> <<6, 1, 0, 3, 5, 1, 5, 6, 2, 5>>, v1 |-> 14] @@
    15 :> [v0 |-> <<3, 0, 5, 1, 7, 5, 7, 8, 1, 2, 5>>, v1 |-> 15] @@
    16 :> [v0 |-> <<1, 5, 2, 5, 8, 7, 8, 9, 0, 6, 2, 5>>, v1 |-> 16] @@
    17 :> [v0 |-> <<7, 6, 2, 9, 3, 9, 4, 5, 3, 1, 2, 5>>, v1 |-> 17] @@
    18 :> [v0 |-> <<3, 8, 1, 4, 6, 9, 7, 2, 6, 5, 6, 2, 5>>, v1 |-> 18] @@
    19 :> [v0 |-> <<1, 9, 0, 7, 3, 4, 8, 6, 3, 2, 8, 1, 2, 5>>, v1 |-> 19] @@
    20 :> [v0 |-> <<9, 5, 3, 6, 7, 4, 3, 1, 6, 4, 0, 6, 2, 5>>, v1 |-> 20] @@
    21 :> [v0 |-> <<4, 7, 6, 8, 3, 7, 1, 5, 8, 2, 0, 3, 1, 2, 5>>, v1 |-> 21] @@
    22 :> [v0 |-> <<2, 3, 8, 4, 1, 8, 5, 7, 9, 1, 0, 1, 5, 6, 2, 5>>, v1 |-> 22] @@
    23 :> [v0 |-> <<1, 1, 9, 2, 0, 9, 2, 8, 9, 5, 5, 0, 7, 8, 1, 2, 5>>, v1 |-> 23]

----------------------------------------------------------------------------
(* The encoder.                                                            *)

\* lines 71-84: edge_num and the loop's initial values
to_binary_repl_enter(dig_, num_, bld) ==
    LET p == pow(dig_)
    IN  IF bld = "debug" /\ p.o
        THEN [kind |-> "panic", err |-> "overflow in to_binary_repl",
              edge_num |-> U32(0), cur_num |-> U32(0)]
        ELSE [kind |-> "ok", err |-> "", edge_num |-> p.v, cur_num |-> num_]

\* a cut that keeps going up to the full width of the 23-bit field
at_cap_of_field(cur_dig_) == cur_dig_ = 22

\* line 96: the cut of an expansion that does not end
at_cap(cur_dig_) == cur_dig_ = 20

\* one pass through the body of the loop, lines 86-99
to_binary_repl_iter(cur_num_, edge_num_, cur_dig_, res_) ==
    LET c1  == Shl1(cur_num_)
        hit == Ge(c1, edge_num_)
    IN  IF edge_num_ = U32(0)
        THEN [kind |-> "panic", cur_num |-> c1, cur_dig |-> cur_dig_,
              res |-> set_nth_bit(res_, cur_dig_, TRUE)]
        ELSE
          LET res1 == IF hit THEN set_nth_bit(res_, cur_dig_, TRUE) ELSE res_
              c2   == IF hit THEN Rem(c1, edge_num_) ELSE c1
          IN  IF Rem(c2, edge_num_) = U32(0)
              THEN [kind |-> "break", cur_num |-> c2, cur_dig |-> cur_dig_,
                    res |-> res1]
              ELSE IF at_cap(cur_dig_)
              THEN [kind |-> "break", cur_num |-> c2, cur_dig |-> cur_dig_,
                    res |-> res1]
              ELSE [kind |-> "continue", cur_num |-> c2,
                    cur_dig |-> cur_dig_ + 1, res |-> res1]

\* lines 101-109: reverse the recorded digits, then the exponent and the sign
to_binary_repl_pack(res_, cur_dig_) ==
    U32Or(U32Or(reverse_from_nth_bit(res_, cur_dig_ + 1), Shl23(cur_dig_ + 1)),
          U32(0))

----------------------------------------------------------------------------
(* The decoder.                                                            *)

\* the shift without clearing the sign bit first
get_exponent_part_keep_sign(w) == w[1] \div 2^7

get_exponent_part(w) == set_nth_bit(w, 31, FALSE)[1] \div 2^7

\* 8388607 & w, below 2^23
get_significand_part(w) == (w[1] % 2^7) * Half + w[2]

\* a String pre \o zeros x '0' \o num_str, the run of zeros kept as a count
EmptyString == [pre |-> <<>>, zeros |-> U32(0), num_str |-> <<>>]

print_decimal(w, bld) ==
    LET index == get_exponent_part(w)
    IN  IF index \notin DOMAIN POW_2_TO_INTERNAL
        THEN [kind |-> "ok", s |-> EmptyString]
        ELSE
          LET v           == POW_2_TO_INTERNAL[index]
              num_        == BigMulInt(v.v0, get_significand_part(w))
              num_str     == to_string(num_)
              num_str_len == Len(num_str)
              under       == num_str_len > v.v1
              remain      == IF under
                             THEN Sub(<<Half, 0>>, U32(num_str_len - v.v1))
                             ELSE U32(v.v1 - num_str_len)
          IN  IF bld = "debug" /\ under
              THEN [kind |-> "panic", s |-> EmptyString]
              ELSE [kind |-> "ok",
                    s |-> [pre |-> <<"0", ".">>, zeros |-> remain,
                           num_str |-> num_str]]

\* the characters of a String whose run of zeros is short
Chars(str) == str.pre \o Repeat("0", str.zeros[2]) \o str.num_str

----------------------------------------------------------------------------
(* The explored calls.                                                     *)

Str(t) == <<"0", ".">> \o t

\* every string over Alphabet of at most MaxLen characters
FreeInputs == UNION {[1..k -> Alphabet] : k \in 0..MaxLen}

\* every "0.<digits>" of at most MaxDigits digits
DigitInputs == {Str(t) : t \in UNION {[1..k -> AsciiDigits] : k \in 1..MaxDigits}}

\* the sets of at most k exponents out of 1..TableSize
RECURSIVE SetsUpTo(_)
SetsUpTo(k) ==
    IF k = 0 THEN {{}}
    ELSE LET P == SetsUpTo(k - 1)
         IN  P \cup {S \cup {i} : S \in P, i \in 1..TableSize}

SetMax(S) == CHOOSE m \in S : \A i \in S : i <= m

\* the sum over i in T of 5^i * 10^(w - i), i.e. 10^w times the sum of 2^-i
RECURSIVE DyadicSum(_, _)
DyadicSum(T, w) ==
    IF T = {} THEN <<0>>
    ELSE LET i == CHOOSE j \in T : TRUE
         IN  BigAdd(BigMulPow(BigMulPow(<<1>>, 5, i), 10, w - i),
                    DyadicSum(T \ {i}, w))

\* "0.<digits>" of the sum of 2^-i over i in T, without trailing zeros
DyadicString(T) ==
    LET w == SetMax(T)
        a == to_string(DyadicSum(T, w))
    IN  Str(Repeat("0", w - Len(a)) \o a)

DyadicInputs == {DyadicString(T) : T \in SetsUpTo(MaxTerms) \ {{}}}

Tails == {<<"1">>, <<"2">>, <<"5">>, <<"9", "7", "6", "5", "6", "2", "5">>}

\* a tail behind or before a run of zeros
PadInputs ==
    UNION {UNION {{Str(Repeat("0", k) \o t), Str(t \o Repeat("0", k))} :
                    k \in 0..(MaxFraction - Len(t))} : t \in Tails}

\* inputs of the repository's tests that the sets above leave out
TestInputs == {<<"3", "3", "0", "0">>,
               <<"0", ".", "0", "3", "4", ".", "0">>,
               Str(<<"1", "1", "1", "1", "1", "1", "1", "1", "1">>),
               Str(<<"6", "2", "5">>), Str(<<"8", "2", "5">>),
               Str(<<"0", "1", "5", "0">>)}

Inputs == FreeInputs \cup DigitInputs \cup DyadicInputs \cup PadInputs
          \cup TestInputs

\* words built directly: either sign, exponents around the table, and
\* significands that are small or use the upper bits of the field
Exponents == 0..(TableSize + 2) \cup {255}

Significands == 0..(2^MaxSigBits - 1) \cup {2^22, 2^22 + 1, 2^23 - 1, 313}

Words == {<<sign * 2^15 + e * 2^7 + (sg \div Half), sg % Half>> :
            sign \in 0..1, e \in Exponents, sg \in Significands}

WordBits == 32

RevWords == {U32(x) : x \in 0..(2^MaxRevBits - 1)}
            \cup {U32(313), U32(2^23 - 1), U32(2^22 + 5), <<Half - 1, Half - 1>>,
                  <<2^15, 1>>, <<43690, 21845>>}

Call(op, input, word, n) == [op |-> op, input |-> input, word |-> word, n |-> n]

Calls == {Call("new", s, U32(0), 0) : s \in Inputs}
         \cup {Call("decode", <<>>, w, 0) : w \in Words}
         \cup {Call("reverse", <<>>, w, n) : w \in RevWords, n \in 0..WordBits}

----------------------------------------------------------------------------
(* The state machine.                                                      *)

Init ==
    /\ build \in {"debug", "release"}
    /\ call \in Calls
    /\ pc = "start"
    /\ valid = FALSE
    /\ dig = 0
    /\ num = U32(0)
    /\ edge_num = U32(0)
    /\ cur_num = U32(0)
    /\ cur_dig = 0
    /\ res = U32(0)
    /\ f = U32(0)
    /\ out = EmptyString
    /\ ret = "pending"
    /\ err = ""
    /\ r1 = U32(0)
    /\ r2 = U32(0)

\* Float::new, lines 55-57: the validation and its early return
NewValidate ==
    /\ pc = "start"
    /\ call.op = "new"
    /\ valid' = is_valid(call.input)
    /\ IF valid' THEN pc' = "count_digits" /\ ret' = ret
                 ELSE pc' = "none" /\ ret' = "None"
    /\ UNCHANGED <<build, call, dig, num, edge_num, cur_num, cur_dig, res, f,
                   out, err, r1, r2>>

\* Float::new, line 61: count_digits
NewCountDigits ==
    /\ pc = "count_digits"
    /\ LET c == count_digits(call.input, build)
       IN  IF c.kind = "panic"
           THEN /\ pc' = "panic"
                /\ ret' = "panic"
                /\ err' = c.err
                /\ UNCHANGED <<dig, num>>
           ELSE /\ pc' = "to_binary_repl"
                /\ dig' = c.dig
                /\ num' = c.num
                /\ UNCHANGED <<ret, err>>
    /\ UNCHANGED <<build, call, valid, edge_num, cur_num, cur_dig, res, f,
                   out, r1, r2>>

\* to_binary_repl, lines 71-84
ToBinaryReplEnter ==
    /\ pc = "to_binary_repl"
    /\ LET e == to_binary_repl_enter(dig, num, build)
       IN  IF e.kind = "panic"
           THEN /\ pc' = "panic"
                /\ ret' = "panic"
                /\ err' = e.err
                /\ UNCHANGED <<edge_num, cur_num, cur_dig, res>>
           ELSE /\ pc' = "loop"
                /\ edge_num' = e.edge_num
                /\ cur_num' = e.cur_num
                /\ cur_dig' = 0
                /\ res' = U32(0)
                /\ UNCHANGED <<ret, err>>
    /\ UNCHANGED <<build, call, valid, dig, num, f, out, r1, r2>>

\* to_binary_repl, lines 85-100: one iteration of the loop
ToBinaryReplIter ==
    /\ pc = "loop"
    /\ LET i == to_binary_repl_iter(cur_num, edge_num, cur_dig, res)
       IN  /\ cur_num' = i.cur_num
           /\ cur_dig' = i.cur_dig
           /\ res' = i.res
           /\ pc' = CASE i.kind = "panic" -> "panic"
                      [] i.kind = "break" -> "pack"
                      [] OTHER -> "loop"
           /\ ret' = IF i.kind = "panic" THEN "panic" ELSE ret
           /\ err' = IF i.kind = "panic" THEN "remainder by zero" ELSE err
    /\ UNCHANGED <<build, call, valid, dig, num, edge_num, f, out, r1, r2>>

\* to_binary_repl, lines 101-109, and Float::new's Some(Float(f))
ToBinaryReplPack ==
    /\ pc = "pack"
    /\ res' = to_binary_repl_pack(res, cur_dig)
    /\ f' = res'
    /\ ret' = "Some"
    /\ pc' = "some"
    /\ UNCHANGED <<build, call, valid, dig, num, edge_num, cur_num, cur_dig,
                   out, err, r1, r2>>

\* Float(w): a word wrapped without passing through the encoder, as code
\* inside the crate can do (the field is private to it)
Construct ==
    /\ pc = "start"
    /\ call.op = "decode"
    /\ f' = call.word
    /\ pc' = "some"
    /\ UNCHANGED <<build, call, valid, dig, num, edge_num, cur_num, cur_dig,
                   res, out, ret, err, r1, r2>>

\* Float::print_decimal
PrintDecimal ==
    /\ pc = "some"
    /\ LET p == print_decimal(f, build)
       IN  IF p.kind = "panic"
           THEN /\ pc' = "panic"
                /\ ret' = "panic"
                /\ err' = "subtract with overflow"
                /\ out' = out
           ELSE /\ pc' = "printed"
                /\ ret' = "String"
                /\ out' = p.s
                /\ err' = err
    /\ UNCHANGED <<build, call, valid, dig, num, edge_num, cur_num, cur_dig,
                   res, f, r1, r2>>

\* reverse_from_nth_bit(x, n)
ReverseOnce ==
    /\ pc = "start"
    /\ call.op = "reverse"
    /\ r1' = reverse_from_nth_bit(call.word, call.n)
    /\ pc' = "reversed"
    /\ UNCHANGED <<build, call, valid, dig, num, edge_num, cur_num, cur_dig,
                   res, f, out, ret, err, r2>>

\* reverse_from_nth_bit applied to its own result
ReverseTwice ==
    /\ pc = "reversed"
    /\ r2' = reverse_from_nth_bit(r1, call.n)
    /\ pc' = "reversed twice"
    /\ UNCHANGED <<build, call, valid, dig, num, edge_num, cur_num, cur_dig,
                   res, f, out, ret, err, r1>>

Next ==
    \/ NewValidate
    \/ NewCountDigits
    \/ ToBinaryReplEnter
    \/ ToBinaryReplIter
    \/ ToBinaryReplPack
    \/ Construct
    \/ PrintDecimal
    \/ ReverseOnce
    \/ ReverseTwice

Spec == Init /\ [][Next]_vars

----------------------------------------------------------------------------
(* Vocabulary of the properties.                                           *)

SignBit(w) == w[1] \div 2^15

ExpField(w) == (w[1] % 2^15) \div 2^7

SigField(w) == (w[1] % 2^7) * Half + w[2]

InTable(w) == ExpField(w) \in 1..TableSize

WellFormed(w) == w[1] \in 0..(Half - 1) /\ w[2] \in 0..(Half - 1)

\* ASCII digits and at most one '.'
Structural(s) ==
    /\ \A i \in 1..Len(s) : s[i] \in AsciiDigits \cup {"."}
    /\ Cardinality({i \in 1..Len(s) : s[i] = "."}) <= 1

HasOneDot(s) == Cardinality({i \in 1..Len(s) : s[i] = "."}) = 1

\* the characters behind the '.'
Fraction(s) == SubSeq(s, FindDot(s, 1) + 1, Len(s))

\* count_digits met no overflow: (dig, num) is the exact pair of the input
ParsedExactly ==
    /\ call.op = "new"
    /\ is_valid(call.input)
    /\ count_digits(call.input, "debug").kind = "ok"

\* "0." and 5^e * sg in decimal, padded on the left to e digits
Rendering(e, sg) ==
    LET d == to_string(BigMulInt(BigMulPow(<<1>>, 5, e), sg))
    IN  <<"0", ".">> \o Repeat("0", e - Len(d)) \o d

DecodePanic == pc = "panic" /\ err = "subtract with overflow"

----------------------------------------------------------------------------
(* The claims.                                                             *)

\* C1: every "0.<digits>" input without trailing zeros whose value is a sum
\* of distinct powers 2^-1 .. 2^-23 is encoded by Float::new, and
\* print_decimal of the result is the input, character for character.
C1_RoundTrip ==
    (call.op = "new" /\ call.input \in DyadicInputs) =>
        /\ pc \notin {"none", "panic"}
        /\ pc = "printed" => (out.zeros[1] = 0 /\ Chars(out) = call.input)

\* C2: Float::new returns None, without a panic and without building a
\* value, for every input that fails is_valid or has no '.'.
C2_NoneWithoutFraction ==
    (call.op = "new" /\ (~is_valid(call.input) \/ FindDot(call.input, 1) = 0)) =>
        /\ pc # "panic"
        /\ ret \in {"pending", "None"}

\* C3 as stated: decoding a word whose exponent field is 0 or above 23
\* yields the error UnsupportedExponent, not a string.
C3_TypedError ==
    (pc = "printed" /\ ~InTable(f)) => ret = "UnsupportedExponent"

\* C3 as amended: decoding a word whose exponent field is 0 or above 23
\* does not panic and returns the empty String, which no decode of a word
\* with an exponent in the table returns.
C3_MissGivesEmptyString ==
    /\ DecodePanic => InTable(f)
    /\ pc = "printed" => (ret = "String" /\ (~InTable(f) <=> out = EmptyString))

C3_Witness ==
    /\ pc = "printed"
    /\ SignBit(f) = 1
    /\ ExpField(f) = TableSize + 1
    /\ out = EmptyString

\* C4: for every pair (dig, num) the parser produces, the word of
\* to_binary_repl has sign 0, an exponent field in 1..23 and a significand
\* below 2^exponent, and print_decimal of it completes with a padding count
\* that did not go below zero.
C4_EncoderOutput ==
    ParsedExactly =>
        /\ pc # "panic"
        /\ pc \in {"some", "printed"} =>
             /\ SignBit(f) = 0
             /\ InTable(f)
             /\ SigField(f) < 2^ExpField(f)
        /\ pc = "printed" => (out.pre = <<"0", ".">> /\ out.zeros[1] = 0)

\* C5: for every parsed pair (d, n), the significand N and the exponent k
\* of the encoded word satisfy N = floor(n * 2^k / 10^d); N / 2^k is the
\* input when the loop ended on remainder 0 and below it otherwise.
C5_SignificandIsFloor ==
    (ParsedExactly /\ pc \in {"some", "printed"}) =>
        LET k   == ExpField(f)
            N   == SigField(f)
            n2k == BigMulInt(BigOfU32(num), 2^k)
            lo  == BigMulPow(IntDigits(N), 10, dig)
            hi  == BigMulPow(IntDigits(N + 1), 10, dig)
        IN  /\ BigLe(lo, n2k)
            /\ BigLt(n2k, hi)
            /\ (cur_num = U32(0)) <=> (lo = n2k)

\* C6: is_valid is true exactly for the strings of ASCII digits with at
\* most one '.'.
C6_IsValidAsciiOnly ==
    (call.op = "new" /\ pc # "start") => (valid <=> Structural(call.input))

\* C7: for every validated string with one '.', count_digits returns the
\* number of characters behind the '.' and their value in base 10, for
\* every length of the fractional part, without 32-bit overflow.
C7_CountDigitsExact ==
    (call.op = "new" /\ Structural(call.input) /\ HasOneDot(call.input)
       /\ pc \notin {"start", "count_digits"}) =>
        /\ ~(pc = "panic" /\ err = "overflow in count_digits")
        /\ pc # "panic" =>
             /\ dig = Len(Fraction(call.input))
             /\ BigOfU32(num) = Strip(<<0>> \o DigitsOf(Fraction(call.input)))

\* C8: bit i of reverse_from_nth_bit(x, n) is bit n-1-i of x for i < n and
\* 0 for i >= n; for n in 1..23 and x < 2^n reversing twice gives x back.
C8_ReverseLowBits ==
    /\ pc \in {"reversed", "reversed twice"} =>
         /\ WellFormed(r1)
         /\ \A i \in 0..(WordBits - 1) :
              Bit(r1, i) = IF i < call.n THEN Bit(call.word, call.n - 1 - i)
                           ELSE 0
    /\ (pc = "reversed twice" /\ call.n \in 1..TableSize
          /\ Lt(call.word, U32(2^call.n))) => r2 = call.word

C8_Witness ==
    /\ pc = "reversed twice"
    /\ call.n = TableSize
    /\ call.word = U32(2^22 + 5)
    /\ r1 # call.word
    /\ r2 = call.word

\* C9 as stated: the loop ends at the first remainder 0 and otherwise only
\* with 23 binary digits recorded.
C9_Cap23 ==
    (pc = "pack" /\ cur_num # U32(0)) => cur_dig + 1 = TableSize

\* C9 as amended: every pass of the loop that does not end it advances the
\* counter by one, the counter never exceeds 20, no pass starts after a
\* remainder 0, and the loop ends on the first remainder 0 or otherwise when
\* the counter is 20: at most 21 binary digits are recorded, and they are
\* the exponent field of the word.
C9_Cap20 ==
    /\ [](/\ pc = "loop" => (cur_dig <= 20 /\ (cur_dig > 0 => cur_num # U32(0)))
          /\ pc = "pack" => (cur_num = U32(0) \/ cur_dig = 20)
          /\ (call.op = "new" /\ pc \in {"some", "printed"}) =>
                (ExpField(f) = cur_dig + 1 /\ cur_dig <= 20))
    /\ [][(pc = "loop" /\ pc' = "loop") => cur_dig' = cur_dig + 1]_vars

C9_Witness ==
    /\ pc = "pack"
    /\ call.input = Str(<<"1">>)
    /\ cur_dig = 20
    /\ cur_num # U32(0)

\* C10: for every word whose exponent field e is in 1..23, with any
\* significand s and any sign, print_decimal returns "0." followed by
\* 5^e * s padded on the left to e digits, and never fails.
C10_DecodeTotal ==
    /\ DecodePanic => ~InTable(f)
    /\ (pc = "printed" /\ InTable(f)) =>
         /\ out.zeros[1] = 0
         /\ Chars(out) = Rendering(ExpField(f), SigField(f))

====
